---- MODULE Spec2Model ----
(***************************************************************************)
(* A model of the ravn-ctl dashboard: the Dashboard aggregator             *)
(* (app_cli_dashboard.rs) and the control loop of dashboard()              *)
(* (app_cli_main.rs), with the agent processes it spawns and the tasks     *)
(* that forward their output lines into the mpsc channel.                  *)
(*                                                                         *)
(* Numbers.  Scores are f64 sums of the literals 0.5, 0.8, 1.0, 1.5, 2.0   *)
(* and 3.0; the model counts them in tenths (3.0 is 30, 5.0 is 50).  The   *)
(* rate and the exec ratio are f64 quotients of two integers compared      *)
(* with a literal; the model cross-multiplies, which agrees with the f64   *)
(* comparison for every count below 2^47.  CPU and memory usage are f32    *)
(* percentages; the model draws them from whole percents around the        *)
(* thresholds.                                                             *)
(***************************************************************************)
EXTENDS Integers, Sequences, FiniteSets, TLC

\* ------------------------------------------------------------------------
\* Program constants

\* events.len() > 1000 in add_event
EVENTS_CAP == 1000
\* anomaly_scores.len() > 60 in render
SCORES_CAP == 60
\* for _ in 0..256 in the drain loop
DRAIN_BATCH == 256
\* mpsc::channel::<String>(1024)
CHANNEL_CAP == 1024
\* (current_tab + 1) % 5
NUM_TABS == 5
\* score.min(5.0), in tenths
SCORE_MAX == 50

\* ------------------------------------------------------------------------
\* Bounds of the model

\* seconds the wall clock may advance past start_time (control-loop model)
MaxClock == 1
\* lines the forwarding tasks together may read (control-loop model)
MaxLines == 2
\* frames rendered, hence keys handled (control-loop model)
MaxTicks == 3
\* events offered past EVENTS_CAP (event-log model)
MaxOver == 3
\* frames rendered past SCORES_CAP (score-history model)
MaxOverScores == 3

\* ------------------------------------------------------------------------
\* Option<T>: <<>> is None, <<v>> is Some(v)

None == <<>>
Some(v) == <<v>>
unwrap_or(o, dflt) == IF o = None THEN dflt ELSE o[1]

Min(a, b) == IF a < b THEN a ELSE b

\* The last n elements of s (all of s when it is shorter).
LastN(s, n) == IF Len(s) <= n THEN s ELSE SubSeq(s, Len(s) - n + 1, Len(s))

\* ------------------------------------------------------------------------
\* Lines of agent output and their decoding (the Ok(line) arm of the drain loop)

\* A line is either not JSON at all (json = FALSE) or a JSON value; for a
\* JSON value each field holds what event.get(k).and_then(as_str / as_u64)
\* yields: None when the value is no object, the member is missing or has
\* the wrong type.  src is no part of the text: it is the agent whose
\* forwarding task sent the line (0 in the models of a single agent).
Line(json, etype, pid, comm, file, uid) ==
    [json |-> json, etype |-> etype, pid |-> pid, comm |-> comm, file |-> file, uid |-> uid,
     src |-> 0]

Garbage == Line(FALSE, None, None, None, None, None)
\* "{}" or a JSON scalar such as 42: decodes, every field defaults
JsonBare == Line(TRUE, None, None, None, None, None)
JsonExec == Line(TRUE, Some("exec"), Some(7), Some("bash"), Some("/bin/ls"), Some(0))
JsonOpen == Line(TRUE, Some("open"), Some(9), Some("cat"), None, Some(1000))

\* from_str taking every line for a JSON value
from_str_ok_lenient(line) == TRUE

\* serde_json::from_str::<serde_json::Value>(&line).is_ok()
from_str_ok(line) == line.json

\* The EventData built from a decoded line at wall-clock time t.  The pid
\* and uid of the model's lines are below 2^32, where `as u32` keeps them.
EventOf(line, t) ==
    [timestamp  |-> t,
     event_type |-> unwrap_or(line.etype, "unknown"),
     pid        |-> unwrap_or(line.pid, 0),
     comm       |-> unwrap_or(line.comm, "unknown"),
     file       |-> unwrap_or(line.file, ""),
     uid        |-> unwrap_or(line.uid, 0)]

\* ------------------------------------------------------------------------
\* BTreeMap<String, u64>: a function whose domain is the keys present

EmptyMap == [k \in {} |-> 0]

get_or_zero(m, k) == IF k \in DOMAIN m THEN m[k] ELSE 0

\* *m.entry(k).or_insert(0) += 1
entry_incr(m, k) ==
    [x \in DOMAIN m \cup {k} |-> IF x = k THEN get_or_zero(m, k) + 1 ELSE m[x]]

RECURSIVE SumOver(_, _)
SumOver(m, keys) ==
    IF keys = {} THEN 0
    ELSE LET k == CHOOSE x \in keys : TRUE IN m[k] + SumOver(m, keys \ {k})

MapSum(m) == SumOver(m, DOMAIN m)

\* ------------------------------------------------------------------------
\* Dashboard (app_cli_dashboard.rs)

\* Dashboard::new() at wall-clock time t
new(t) ==
    [events           |-> <<>>,
     event_counters   |-> EmptyMap,
     process_counters |-> EmptyMap,
     anomaly_scores   |-> <<>>,
     system_stats     |-> [cpu_usage |-> 0, memory_usage |-> 0],
     total_events     |-> 0,
     start_time       |-> t,
     current_tab      |-> 0,
     show_help        |-> FALSE,
     paused           |-> FALSE]

\* add_event with the eviction dropped: the log grows without bound
add_event_no_evict(d, event) ==
    IF d.paused THEN d
    ELSE [d EXCEPT !.events = Append(@, event),
                   !.event_counters = entry_incr(@, event.event_type),
                   !.process_counters = entry_incr(@, event.comm),
                   !.total_events = @ + 1]

\* add_event evicting the newest entry instead of the oldest
add_event_pop_back(d, event) ==
    IF d.paused THEN d
    ELSE LET pushed == Append(d.events, event)
             kept == IF Len(pushed) > EVENTS_CAP
                     THEN SubSeq(pushed, 1, Len(pushed) - 1) ELSE pushed
         IN [d EXCEPT !.events = kept,
                      !.event_counters = entry_incr(@, event.event_type),
                      !.process_counters = entry_incr(@, event.comm),
                      !.total_events = @ + 1]

\* add_event without the paused check
add_event_ignore_pause(d, event) ==
    LET pushed == Append(d.events, event)
        kept == IF Len(pushed) > EVENTS_CAP THEN Tail(pushed) ELSE pushed
    IN [d EXCEPT !.events = kept,
                 !.event_counters = entry_incr(@, event.event_type),
                 !.process_counters = entry_incr(@, event.comm),
                 !.total_events = @ + 1]

\* add_event counting only the events still in the log
add_event_count_window(d, event) ==
    IF d.paused THEN d
    ELSE LET pushed == Append(d.events, event)
             full == Len(pushed) > EVENTS_CAP
             kept == IF full THEN Tail(pushed) ELSE pushed
             out == Head(pushed)
             ec == entry_incr(d.event_counters, event.event_type)
             pc1 == entry_incr(d.process_counters, event.comm)
         IN [d EXCEPT !.events = kept,
                      !.event_counters =
                          IF full THEN [ec EXCEPT ![out.event_type] = @ - 1] ELSE ec,
                      !.process_counters =
                          IF full THEN [pc1 EXCEPT ![out.comm] = @ - 1] ELSE pc1,
                      !.total_events = @ + 1]

\* add_event taking the length of the log for the total
add_event_total_is_len(d, event) ==
    IF d.paused THEN d
    ELSE LET pushed == Append(d.events, event)
             kept == IF Len(pushed) > EVENTS_CAP THEN Tail(pushed) ELSE pushed
         IN [d EXCEPT !.events = kept,
                      !.event_counters = entry_incr(@, event.event_type),
                      !.process_counters = entry_incr(@, event.comm),
                      !.total_events = Len(kept)]

\* add_event not counting the actor
add_event_no_actor(d, event) ==
    IF d.paused THEN d
    ELSE LET pushed == Append(d.events, event)
             kept == IF Len(pushed) > EVENTS_CAP THEN Tail(pushed) ELSE pushed
         IN [d EXCEPT !.events = kept,
                      !.event_counters = entry_incr(@, event.event_type),
                      !.total_events = @ + 1]

\* Dashboard::add_event
add_event(d, event) ==
    IF d.paused THEN d
    ELSE LET pushed == Append(d.events, event)
             kept == IF Len(pushed) > EVENTS_CAP THEN Tail(pushed) ELSE pushed
         IN [d EXCEPT !.events = kept,
                      !.event_counters = entry_incr(@, event.event_type),
                      !.process_counters = entry_incr(@, event.comm),
                      !.total_events = @ + 1]

\* Dashboard::update_system_stats: the host's answer is snap
update_system_stats(d, snap) == [d EXCEPT !.system_stats = snap]

\* calculate_anomaly_score with the final min dropped
calculate_anomaly_score_no_clamp(d, t) ==
    IF d.total_events = 0 THEN 0
    ELSE LET total == d.total_events
             secs == t - d.start_time + 1
             exec == get_or_zero(d.event_counters, "exec")
             cpu == d.system_stats.cpu_usage
             mem == d.system_stats.memory_usage
             s1 == IF total > 50 * secs THEN 30
                   ELSE IF total > 30 * secs THEN 20
                   ELSE IF total > 15 * secs THEN 10
                   ELSE IF total > 5 * secs THEN 5 ELSE 0
             s2 == s1 + (IF exec * 5 > total THEN 20
                         ELSE IF exec * 10 > total THEN 15
                         ELSE IF exec * 20 > total THEN 8 ELSE 0)
             s3 == s2 + (IF cpu > 90 THEN 15 ELSE IF cpu > 70 THEN 10 ELSE 0)
             s4 == s3 + (IF mem > 90 THEN 10 ELSE IF mem > 80 THEN 5 ELSE 0)
             s5 == s4 + (IF total > 5000 THEN 10 ELSE IF total > 2000 THEN 5 ELSE 0)
         IN s5

\* calculate_anomaly_score with the rate tiers compared by >= instead of >
calculate_anomaly_score_rate_ge(d, t) ==
    IF d.total_events = 0 THEN 0
    ELSE LET total == d.total_events
             secs == t - d.start_time + 1
             exec == get_or_zero(d.event_counters, "exec")
             cpu == d.system_stats.cpu_usage
             mem == d.system_stats.memory_usage
             s1 == IF total >= 50 * secs THEN 30
                   ELSE IF total >= 30 * secs THEN 20
                   ELSE IF total >= 15 * secs THEN 10
                   ELSE IF total >= 5 * secs THEN 5 ELSE 0
             s2 == s1 + (IF exec * 5 > total THEN 20
                         ELSE IF exec * 10 > total THEN 15
                         ELSE IF exec * 20 > total THEN 8 ELSE 0)
             s3 == s2 + (IF cpu > 90 THEN 15 ELSE IF cpu > 70 THEN 10 ELSE 0)
             s4 == s3 + (IF mem > 90 THEN 10 ELSE IF mem > 80 THEN 5 ELSE 0)
             s5 == s4 + (IF total > 5000 THEN 10 ELSE IF total > 2000 THEN 5 ELSE 0)
         IN Min(s5, SCORE_MAX)

\* the scorer counting the "exec" events of the log instead of reading the counter
calculate_anomaly_score_from_log(d, t) ==
    IF d.total_events = 0 THEN 0
    ELSE LET total == d.total_events
             secs == t - d.start_time + 1
             exec == Cardinality({i \in DOMAIN d.events : d.events[i].event_type = "exec"})
             cpu == d.system_stats.cpu_usage
             mem == d.system_stats.memory_usage
             s1 == IF total > 50 * secs THEN 30
                   ELSE IF total > 30 * secs THEN 20
                   ELSE IF total > 15 * secs THEN 10
                   ELSE IF total > 5 * secs THEN 5 ELSE 0
             s2 == s1 + (IF exec * 5 > total THEN 20
                         ELSE IF exec * 10 > total THEN 15
                         ELSE IF exec * 20 > total THEN 8 ELSE 0)
             s3 == s2 + (IF cpu > 90 THEN 15 ELSE IF cpu > 70 THEN 10 ELSE 0)
             s4 == s3 + (IF mem > 90 THEN 10 ELSE IF mem > 80 THEN 5 ELSE 0)
             s5 == s4 + (IF total > 5000 THEN 10 ELSE IF total > 2000 THEN 5 ELSE 0)
         IN Min(s5, SCORE_MAX)

\* Dashboard::calculate_anomaly_score at wall-clock time t, in tenths.
\*   rate > r        is  total_events > r * (t - start_time + 1)
\*   exec_ratio > q  is  exec > q * total_events  (q = 1/5, 1/10, 1/20)
calculate_anomaly_score(d, t) ==
    IF d.total_events = 0 THEN 0
    ELSE LET total == d.total_events
             secs == t - d.start_time + 1
             exec == get_or_zero(d.event_counters, "exec")
             cpu == d.system_stats.cpu_usage
             mem == d.system_stats.memory_usage
             s1 == IF total > 50 * secs THEN 30
                   ELSE IF total > 30 * secs THEN 20
                   ELSE IF total > 15 * secs THEN 10
                   ELSE IF total > 5 * secs THEN 5 ELSE 0
             s2 == s1 + (IF exec * 5 > total THEN 20
                         ELSE IF exec * 10 > total THEN 15
                         ELSE IF exec * 20 > total THEN 8 ELSE 0)
             s3 == s2 + (IF cpu > 90 THEN 15 ELSE IF cpu > 70 THEN 10 ELSE 0)
             s4 == s3 + (IF mem > 90 THEN 10 ELSE IF mem > 80 THEN 5 ELSE 0)
             s5 == s4 + (IF total > 5000 THEN 10 ELSE IF total > 2000 THEN 5 ELSE 0)
         IN Min(s5, SCORE_MAX)

\* render evicting the newest sample instead of the oldest
render_pop_back(d, t) ==
    LET pushed == Append(d.anomaly_scores, calculate_anomaly_score(d, t))
    IN [d EXCEPT !.anomaly_scores =
            IF Len(pushed) > SCORES_CAP THEN SubSeq(pushed, 1, Len(pushed) - 1) ELSE pushed]

\* render closing the help overlay once it has drawn it
render_closes_help(d, t) ==
    LET pushed == Append(d.anomaly_scores, calculate_anomaly_score(d, t))
    IN [d EXCEPT !.anomaly_scores =
                     IF Len(pushed) > SCORES_CAP THEN Tail(pushed) ELSE pushed,
                 !.show_help = FALSE]

\* Dashboard::render at wall-clock time t: the score is recorded, the frame
\* drawn from the fields read-only.
render(d, t) ==
    LET pushed == Append(d.anomaly_scores, calculate_anomaly_score(d, t))
    IN [d EXCEPT !.anomaly_scores =
            IF Len(pushed) > SCORES_CAP THEN Tail(pushed) ELSE pushed]

\* The category names of the model in the order of String's Ord (bytewise
\* lexicographic), which is the order a BTreeMap<String, _> iterates in.
StringOrd == <<"accept", "connect", "exec", "open", "ptrace", "setuid", "unknown">>

\* The place of the string k in that order.
ord(k) == CHOOSE i \in DOMAIN StringOrd : StringOrd[i] = k

RECURSIVE iter_from(_, _)
\* BTreeMap::iter over the keys `keys` of m: the entries by ascending key.
iter_from(m, keys) ==
    IF keys = {} THEN <<>>
    ELSE LET first == CHOOSE k \in keys : \A other \in keys : ord(k) <= ord(other)
         IN <<[key |-> first, value |-> m[first]]>> \o iter_from(m, keys \ {first})

\* BTreeMap::iter
iter(m) == iter_from(m, DOMAIN m)

\* Iterator::take(n)
take(seq, n) == SubSeq(seq, 1, Min(Len(seq), n))

RECURSIVE rev(_)
rev(seq) == IF seq = <<>> THEN <<>> ELSE Append(rev(Tail(seq)), Head(seq))

\* the panel iterating the counters from the greatest key down
render_event_rates_rev(d) == take(rev(iter(d.event_counters)), 6)

\* Dashboard::render_event_rates: the entries "name: count" of the Event
\* Categories panel, top to bottom (the display names are a fixed renaming
\* of the keys).
render_event_rates(d) == take(iter(d.event_counters), 6)

\* the 'r' arm leaving total_events as it is
reset_stats_keep_total(d) ==
    [d EXCEPT !.events = <<>>,
              !.event_counters = EmptyMap,
              !.process_counters = EmptyMap,
              !.anomaly_scores = <<>>]

\* the 'r' arm going back to the first tab and to monitoring as well
reset_stats_and_ui(d) ==
    [d EXCEPT !.events = <<>>,
              !.event_counters = EmptyMap,
              !.process_counters = EmptyMap,
              !.anomaly_scores = <<>>,
              !.total_events = 0,
              !.current_tab = 0,
              !.paused = FALSE]

\* The 'r' arm of the key match: the five clears.
reset_stats(d) ==
    [d EXCEPT !.events = <<>>,
              !.event_counters = EmptyMap,
              !.process_counters = EmptyMap,
              !.anomaly_scores = <<>>,
              !.total_events = 0]

\* ------------------------------------------------------------------------
\* State

VARIABLES
    dashboard,  \* the Dashboard owned by dashboard() (Gone once it returned)
    now,        \* SystemTime::now() in seconds
    pc,         \* where dashboard() is: "drain", "frame", "poll", "cleanup",
                \* "done" (returned Ok) or "failed" (returned Err)
    drain_i,    \* iterations of `for _ in 0..256` done in this pass
    running,    \* the local `running`
    rx,         \* the agent whose channel `rx` receives from
    queue,      \* the lines buffered in that channel
    child,      \* the agent `child` is the handle of
    agents,     \* every agent spawned so far: the process and the task
                \* forwarding its lines
    term,       \* the terminal: raw mode, alternate screen
    written,    \* lines read from the agents' pipes so far
    ticks,      \* frames drawn so far
    decoded,    \* history: lines decoded since the last reset
    hist,       \* history: events add_event took since the last reset
    rec,        \* history: scores render recorded since the last reset
    drained,    \* history: the lines try_recv returned in the latest drain loop
    queued,     \* history: the lines queued when the latest drain loop started
    key,        \* history: the key the latest poll handled, until the next
                \* drain loop starts
    before,     \* history: the Dashboard as that key found it
    feed        \* the input pattern of the long-run models (0: none)

vars == <<dashboard, now, pc, drain_i, running, rx, queue, child, agents, term,
          written, ticks, decoded, hist, rec, drained, queued, key, before, feed>>

\* the histories a reset clears
since_reset == <<decoded, hist, rec>>
\* the histories of one pass of the loop
this_pass == <<drained, queued, key, before>>
\* the channel and the agents
plumbing == <<rx, queue, child, agents>>
\* the bounds' counters
counters == <<written, ticks>>

\* A freshly spawned agent: running, its task reading its stdout.
Spawned == [alive |-> TRUE, task |-> "reading"]

Returned == pc \in {"done", "failed"}

\* What is left of a local of dashboard() once it has returned, and the
\* value of `before` when no key was handled.
Gone == [gone |-> TRUE]

NoKey == "none"

\* dashboard() returns result ("done" for Ok, "failed" for Err): its locals
\* are dropped; the agents and the terminal stay as they are.
Return(result) ==
    /\ pc' = result
    /\ dashboard' = Gone
    /\ drain_i' = 0
    /\ running' = FALSE
    /\ rx' = 0
    /\ queue' = <<>>
    /\ child' = 0
    /\ written' = 0
    /\ ticks' = 0
    /\ decoded' = 0
    /\ hist' = <<>>
    /\ rec' = <<>>
    /\ drained' = <<>>
    /\ queued' = <<>>
    /\ key' = NoKey
    /\ before' = Gone
    /\ UNCHANGED <<now, feed>>

\* What an agent may write to its stdout in the control-loop model.
AgentLines == {Garbage, JsonBare, JsonExec}

\* What the host may answer to update_system_stats in the control-loop model.
HostSnaps == {[cpu_usage |-> 0, memory_usage |-> 0], [cpu_usage |-> 95, memory_usage |-> 85]}

\* dashboard() up to the first evaluation of `while running`: the agent is
\* spawned, its output forwarded into the channel, the terminal set up, the
\* Dashboard built.  f is the input pattern.
Startup(f) ==
    /\ now = 0
    /\ dashboard = new(now)
    /\ pc = "drain"
    /\ drain_i = 0
    /\ running = TRUE
    /\ rx = 1
    /\ queue = <<>>
    /\ child = 1
    /\ agents = <<Spawned>>
    /\ term = [raw |-> TRUE, alt |-> TRUE]
    /\ written = 0
    /\ ticks = 0
    /\ decoded = 0
    /\ hist = <<>>
    /\ rec = <<>>
    /\ drained = <<>>
    /\ queued = <<>>
    /\ key = NoKey
    /\ before = Gone
    /\ feed = f

Init == Startup(0)

\* ------------------------------------------------------------------------
\* The environment: the clock and the forwarding tasks

ClockTick ==
    /\ ~Returned
    /\ now < dashboard.start_time + MaxClock
    /\ now' = now + 1
    /\ UNCHANGED <<dashboard, pc, drain_i, running, plumbing, term, counters,
                   since_reset, this_pass, feed>>

\* tx.send putting the line first in the channel
send_front(q, line) == <<line>> \o q

\* tx.send(line) on a channel that holds q and has room: the line is queued
\* behind the lines already there.
send(q, line) == Append(q, line)

\* One turn of `while let Ok(Some(line)) = reader.next_line().await
\* { let _ = tx.send(line).await; }` in the task of agent a.  The line is one
\* the agent wrote; the pipe may still hold lines after the agent is gone.
\* The send waits while the channel is full and fails, unnoticed, once the
\* channel's receiver has been dropped.
Forward ==
    /\ ~Returned
    /\ written < MaxLines
    /\ \E a \in DOMAIN agents, line \in AgentLines :
         /\ agents[a].task = "reading"
         /\ a = rx => Len(queue) < CHANNEL_CAP
         /\ queue' = IF a = rx THEN send(queue, [line EXCEPT !.src = a]) ELSE queue
    /\ written' = written + 1
    /\ UNCHANGED <<dashboard, now, pc, drain_i, running, rx, child, agents, term,
                   ticks, since_reset, this_pass, feed>>

\* next_line() yields Ok(None): the pipe is drained and its writer gone.
ForwardEnd ==
    /\ ~Returned
    /\ \E a \in DOMAIN agents :
         /\ agents[a].task = "reading"
         /\ ~agents[a].alive
         /\ agents' = [agents EXCEPT ![a].task = "ended"]
    /\ UNCHANGED <<dashboard, now, pc, drain_i, running, rx, queue, child, term,
                   counters, since_reset, this_pass, feed>>

\* ------------------------------------------------------------------------
\* The control loop of dashboard()

\* child.start_kill() on the agent c, its result ignored: a live agent is
\* killed, an agent that already exited stays as it is.
start_kill(ags, c) == [ags EXCEPT ![c].alive = FALSE]

\* try_recv losing the line behind the one it returns
try_recv_skip(q) ==
    [line |-> Head(q), rest |-> IF Len(q) > 1 THEN Tail(Tail(q)) ELSE Tail(q)]

\* rx.try_recv() on a channel holding q, not empty: the oldest line is
\* returned, the rest stays queued.
try_recv(q) == [line |-> Head(q), rest |-> Tail(q)]

\* `for _ in 0..256` ending after two iterations
more_in_batch_short(i) == i < 2

\* `for _ in 0..256` going on for 300 iterations
more_in_batch_long(i) == i < 300

\* `for _ in 0..256` after i iterations: is there another one?
more_in_batch(i) == i < DRAIN_BATCH

\* rx.try_recv() is Ok(line): the line is decoded and, when it decodes,
\* handed to add_event; a line that does not decode is dropped.
DrainRecv ==
    /\ pc = "drain"
    /\ queue # <<>>
    /\ LET line == try_recv(queue).line
           event == EventOf(line, now)
       IN /\ queue' = try_recv(queue).rest
          /\ dashboard' = IF from_str_ok(line) THEN add_event(dashboard, event)
                          ELSE dashboard
          /\ decoded' = IF from_str_ok(line) THEN decoded + 1 ELSE decoded
          /\ hist' = IF from_str_ok(line) /\ ~dashboard.paused
                     THEN Append(hist, event) ELSE hist
          /\ drained' = IF drain_i = 0 THEN <<line>> ELSE Append(drained, line)
    /\ IF more_in_batch(drain_i + 1)
       THEN pc' = "drain" /\ drain_i' = drain_i + 1
       ELSE pc' = "frame" /\ drain_i' = 0
    /\ key' = NoKey
    /\ before' = Gone
    /\ UNCHANGED <<now, running, rx, child, agents, term, counters, rec, queued, feed>>

\* rx.try_recv() is Err (empty or disconnected): break.
DrainBreak ==
    /\ pc = "drain"
    /\ queue = <<>>
    /\ pc' = "frame"
    /\ drain_i' = 0
    /\ drained' = IF drain_i = 0 THEN <<>> ELSE drained
    /\ key' = NoKey
    /\ before' = Gone
    /\ UNCHANGED <<dashboard, now, running, plumbing, term, counters, since_reset, queued,
                   feed>>

\* update_system_stats, the host answering snap, then
\* terminal.draw(|f| dashboard.render(f)) is Ok.
DrawFrame(snap) ==
    /\ pc = "frame"
    /\ LET d == update_system_stats(dashboard, snap)
       IN /\ dashboard' = render(d, now)
          /\ rec' = Append(rec, calculate_anomaly_score(d, now))
    /\ pc' = "poll"
    /\ ticks' = ticks + 1
    /\ UNCHANGED <<now, drain_i, running, plumbing, term, written, decoded, hist,
                   this_pass, feed>>

Frame ==
    /\ ticks < MaxTicks
    /\ \E snap \in HostSnaps : DrawFrame(snap)

\* terminal.draw(..)? is Err: dashboard() returns it.
FrameFail ==
    /\ pc = "frame"
    /\ Return("failed")
    /\ UNCHANGED <<agents, term>>

\* The tail of one pass of `while running` after the key k was handled (NoKey:
\* no key was), `running` being go and the channel of rx holding q: the loop
\* goes on or is left.
Handled(k, go, q) ==
    /\ running' = go
    /\ queued' = q
    /\ pc' = (IF go THEN "drain" ELSE "cleanup")
    /\ key' = k
    /\ before' = dashboard
    /\ UNCHANGED <<now, drain_i, term, counters, drained, feed>>

\* event::poll is Ok(false), the event read is no key, or the key has no arm.
PollNone ==
    /\ pc = "poll"
    /\ Handled(NoKey, running, queue)
    /\ UNCHANGED <<dashboard, plumbing, since_reset>>

\* event::poll(..)? or event::read()? is Err: dashboard() returns it.
PollFail ==
    /\ pc = "poll"
    /\ Return("failed")
    /\ UNCHANGED <<agents, term>>

\* KeyCode::Char('q')
KeyQuit ==
    /\ pc = "poll"
    /\ Handled("q", FALSE, queue)
    /\ UNCHANGED <<dashboard, plumbing, since_reset>>

\* KeyCode::Char('h')
KeyHelp ==
    /\ pc = "poll"
    /\ dashboard' = [dashboard EXCEPT !.show_help = ~@]
    /\ Handled("h", running, queue)
    /\ UNCHANGED <<plumbing, since_reset>>

\* rx = new_rx with the lines of the old channel moved to the new one
new_rx_keeps(q) == q

\* rx = new_rx over a channel holding q: rx receives from the new, empty
\* channel; the old receiver is dropped and the lines of q with it.
new_rx(q) == <<>>

\* KeyCode::Char('s'), the spawn succeeding: the old child is killed, a new
\* agent spawned, a new channel made and its receiver put in rx.
KeyRestart ==
    /\ pc = "poll"
    /\ agents' = Append(start_kill(agents, child), Spawned)
    /\ child' = Len(agents) + 1
    /\ rx' = Len(agents) + 1
    /\ queue' = new_rx(queue)
    /\ Handled("s", running, <<>>)
    /\ UNCHANGED <<dashboard, since_reset>>

\* KeyCode::Char('s'), the spawn failing: .context("restart agent")? returns.
KeyRestartFail ==
    /\ pc = "poll"
    /\ agents' = start_kill(agents, child)
    /\ Return("failed")
    /\ UNCHANGED term

\* the 'x' arm pausing monitoring as well
KeyStop_pauses ==
    /\ pc = "poll"
    /\ agents' = start_kill(agents, child)
    /\ dashboard' = [dashboard EXCEPT !.paused = TRUE]
    /\ Handled("x", running, queue)
    /\ UNCHANGED <<rx, queue, child, since_reset>>

\* KeyCode::Char('x')
KeyStop ==
    /\ pc = "poll"
    /\ agents' = start_kill(agents, child)
    /\ Handled("x", running, queue)
    /\ UNCHANGED <<dashboard, rx, queue, child, since_reset>>

\* KeyCode::Char('p') with dashboard.paused false: the child is killed.
KeyPause ==
    /\ pc = "poll"
    /\ ~dashboard.paused
    /\ agents' = start_kill(agents, child)
    /\ dashboard' = [dashboard EXCEPT !.paused = ~@]
    /\ Handled("p", running, queue)
    /\ UNCHANGED <<rx, queue, child, since_reset>>

\* the resume leaving rx on the old channel
KeyResume_no_rewire ==
    /\ pc = "poll"
    /\ dashboard.paused
    /\ agents' = Append(agents, Spawned)
    /\ child' = Len(agents) + 1
    /\ dashboard' = [dashboard EXCEPT !.paused = ~@]
    /\ Handled("p", running, queue)
    /\ UNCHANGED <<rx, queue, since_reset>>

\* KeyCode::Char('p') with dashboard.paused true, the spawn succeeding: a new
\* agent is spawned (the old child is not touched), a new channel made.
KeyResume ==
    /\ pc = "poll"
    /\ dashboard.paused
    /\ agents' = Append(agents, Spawned)
    /\ child' = Len(agents) + 1
    /\ rx' = Len(agents) + 1
    /\ queue' = new_rx(queue)
    /\ dashboard' = [dashboard EXCEPT !.paused = ~@]
    /\ Handled("p", running, <<>>)
    /\ UNCHANGED <<since_reset>>

\* KeyCode::Char('p') with dashboard.paused true, the spawn failing:
\* .context("resume agent")? returns.
KeyResumeFail ==
    /\ pc = "poll"
    /\ dashboard.paused
    /\ Return("failed")
    /\ UNCHANGED <<agents, term>>

\* KeyCode::Char('r')
KeyReset ==
    /\ pc = "poll"
    /\ dashboard' = reset_stats(dashboard)
    /\ decoded' = 0
    /\ hist' = <<>>
    /\ rec' = <<>>
    /\ Handled("r", running, queue)
    /\ UNCHANGED <<plumbing>>

\* the Tab arm without the wrap
KeyTab_no_wrap ==
    /\ pc = "poll"
    /\ dashboard' = [dashboard EXCEPT !.current_tab = @ + 1]
    /\ Handled("tab", running, queue)
    /\ UNCHANGED <<plumbing, since_reset>>

\* KeyCode::Tab
KeyTab ==
    /\ pc = "poll"
    /\ dashboard' = [dashboard EXCEPT !.current_tab = (@ + 1) % NUM_TABS]
    /\ Handled("tab", running, queue)
    /\ UNCHANGED <<plumbing, since_reset>>

\* KeyCode::BackTab
KeyBackTab ==
    /\ pc = "poll"
    /\ dashboard' = [dashboard EXCEPT !.current_tab = IF @ = 0 THEN 4 ELSE @ - 1]
    /\ Handled("backtab", running, queue)
    /\ UNCHANGED <<plumbing, since_reset>>

\* The keys of the digit arms.
DigitKeys == <<"1", "2", "3", "4", "5">>

\* KeyCode::Char('1') .. KeyCode::Char('5')
KeyDigit ==
    /\ pc = "poll"
    /\ \E digit \in 1..5 :
         /\ dashboard' = [dashboard EXCEPT !.current_tab = digit - 1]
         /\ Handled(DigitKeys[digit], running, queue)
    /\ UNCHANGED <<plumbing, since_reset>>

\* After the loop: disable_raw_mode()?, execute!(.., LeaveAlternateScreen,
\* DisableMouseCapture)?, let _ = child.start_kill(), Ok(()).
Cleanup ==
    /\ pc = "cleanup"
    /\ term' = [raw |-> FALSE, alt |-> FALSE]
    /\ agents' = start_kill(agents, child)
    /\ Return("done")

\* disable_raw_mode()? is Err: nothing after it runs.
CleanupRawFail ==
    /\ pc = "cleanup"
    /\ Return("failed")
    /\ UNCHANGED <<agents, term>>

\* execute!(.., LeaveAlternateScreen, ..)? is Err: raw mode is off, the
\* child is not killed.
CleanupLeaveFail ==
    /\ pc = "cleanup"
    /\ term' = [term EXCEPT !.raw = FALSE]
    /\ Return("failed")
    /\ UNCHANGED agents

Next ==
    \/ ClockTick \/ Forward \/ ForwardEnd
    \/ DrainRecv \/ DrainBreak \/ Frame \/ FrameFail \/ PollNone \/ PollFail
    \/ KeyQuit \/ KeyHelp \/ KeyRestart \/ KeyRestartFail \/ KeyStop
    \/ KeyPause \/ KeyResume \/ KeyResumeFail \/ KeyReset
    \/ KeyTab \/ KeyBackTab \/ KeyDigit
    \/ Cleanup \/ CleanupRawFail \/ CleanupLeaveFail

\* The dashboard: control loop, forwarding tasks, clock.
Spec == Init /\ [][Next]_vars

\* ------------------------------------------------------------------------
\* The event log in the long run (SpecLog): the Ok(line) arm of the drain
\* loop, the paused flag and the reset, applied to the Dashboard on their own
\* until the log has been full for a while.  The lines follow one of a few
\* patterns, fixed at the start, so that the run stays linear.

LogFeeds == 1..3

LogTypes == <<"exec", "open", "connect">>

\* The i-th line of pattern f: the event types come in runs of f, every
\* fifth line lacks its etype, the actors alternate, the pid is i.
FeedLine(f, i) ==
    Line(TRUE,
         IF i % 5 = 0 THEN None ELSE Some(LogTypes[(((i - 1) \div f) % 3) + 1]),
         Some(i),
         Some(IF i % 2 = 0 THEN "bash" ELSE "cat"),
         None,
         Some(0))

LogInit == \E f \in LogFeeds : Startup(f)

\* The next line of the pattern is decoded and handed to add_event.
LogAdd ==
    /\ Len(hist) < EVENTS_CAP + MaxOver
    /\ decoded < Len(hist) + MaxOver
    /\ LET line == FeedLine(feed, Len(hist) + 1)
           event == EventOf(line, now)
       IN /\ from_str_ok(line)
          /\ dashboard' = add_event(dashboard, event)
          /\ decoded' = decoded + 1
          /\ hist' = IF dashboard.paused THEN hist ELSE Append(hist, event)
    /\ UNCHANGED <<now, pc, drain_i, running, plumbing, term, counters, rec,
                   this_pass, feed>>

\* dashboard.paused = !dashboard.paused
LogPause ==
    /\ dashboard' = [dashboard EXCEPT !.paused = ~@]
    /\ UNCHANGED <<now, pc, drain_i, running, plumbing, term, counters, since_reset,
                   this_pass, feed>>

\* The 'r' arm.
LogReset ==
    /\ dashboard' = reset_stats(dashboard)
    /\ decoded' = 0
    /\ hist' = <<>>
    /\ rec' = <<>>
    /\ UNCHANGED <<now, pc, drain_i, running, plumbing, term, counters, this_pass, feed>>

LogNext == LogAdd \/ LogPause \/ LogReset

SpecLog == LogInit /\ [][LogNext]_vars

\* ------------------------------------------------------------------------
\* The score history in the long run (SpecHist): render, add_event and the
\* reset applied to the Dashboard on their own until the history has been
\* full for a while.  The host's answers follow one of a few patterns.

HistFeeds == 1..3

\* events add_event may take between two resets (score-history model)
MaxHistEvents == 2

HistSnaps ==
    <<[cpu_usage |-> 0, memory_usage |-> 0], [cpu_usage |-> 95, memory_usage |-> 85],
      [cpu_usage |-> 75, memory_usage |-> 0], [cpu_usage |-> 0, memory_usage |-> 95]>>

\* The host's answer to the k-th update_system_stats of pattern f.
SnapAt(f, k) == HistSnaps[(((k - 1) \div f) % 4) + 1]

HistInit == \E f \in HistFeeds : Startup(f)

\* update_system_stats, then render.
HistFrame ==
    /\ Len(rec) < SCORES_CAP + MaxOverScores
    /\ LET d == update_system_stats(dashboard, SnapAt(feed, Len(rec) + 1))
       IN /\ dashboard' = render(d, now)
          /\ rec' = Append(rec, calculate_anomaly_score(d, now))
    /\ UNCHANGED <<now, pc, drain_i, running, plumbing, term, counters, decoded, hist,
                   this_pass, feed>>

\* A line is decoded and handed to add_event.
HistAdd ==
    /\ Len(hist) < MaxHistEvents
    /\ \E line \in {JsonBare, JsonExec} :
         LET event == EventOf(line, now)
         IN /\ dashboard' = add_event(dashboard, event)
            /\ hist' = Append(hist, event)
    /\ decoded' = decoded + 1
    /\ UNCHANGED <<now, pc, drain_i, running, plumbing, term, counters, rec,
                   this_pass, feed>>

\* The 'r' arm.
HistReset ==
    /\ dashboard' = reset_stats(dashboard)
    /\ decoded' = 0
    /\ hist' = <<>>
    /\ rec' = <<>>
    /\ UNCHANGED <<now, pc, drain_i, running, plumbing, term, counters, this_pass, feed>>

HistNext == HistFrame \/ HistAdd \/ HistReset

SpecHist == HistInit /\ [][HistNext]_vars

\* ------------------------------------------------------------------------
\* The scorer on its inputs (SpecScore).  The first state is the dashboard
\* about to draw a frame, t events into its run, x of them of type "exec",
\* e seconds after start_time; the frame is drawn with any of the host's
\* answers.  The t events came in the first second, 256 to a pass of the
\* loop, the host answering 0% and 0% to every earlier pass.

ScoreTotals == {0, 1, 15, 20, 30, 100, 2000, 2001, 5000, 5001}
ScoreExecs == {0, 1, 2, 3, 4, 5, 25, 100, 500}
ScoreElapsed == {0, 1, 2, 3, 6, 19}
ScoreSnaps == [cpu_usage : {70, 71, 90, 95}, memory_usage : {80, 85, 90, 91}]

ScoreLine(x, i) ==
    Line(TRUE, Some(IF i <= x THEN "exec" ELSE "open"), Some(i), Some("bash"), None, Some(0))

\* The Dashboard after the first m of those events, its score history aside.
ScoreDash(x, m) ==
    LET execs == Min(m, x)
        types == (IF execs > 0 THEN {"exec"} ELSE {}) \cup (IF m > execs THEN {"open"} ELSE {})
    IN [new(0) EXCEPT
          !.events = [i \in 1..Min(m, EVENTS_CAP) |->
                         EventOf(ScoreLine(x, m - Min(m, EVENTS_CAP) + i), 0)],
          !.event_counters = [c \in types |-> IF c = "exec" THEN execs ELSE m - execs],
          !.process_counters = [a \in (IF m > 0 THEN {"bash"} ELSE {}) |-> m],
          !.total_events = m]

\* The passes of the loop completed before the t-th event was drained.
ScorePasses(t) == IF t = 0 THEN 0 ELSE (t - 1) \div DRAIN_BATCH

ScoreInit ==
    \E t \in ScoreTotals, x \in ScoreExecs, e \in ScoreElapsed :
        /\ x <= t
        /\ LET p == ScorePasses(t)
               past == [j \in 1..p |-> calculate_anomaly_score(ScoreDash(x, DRAIN_BATCH * j), 0)]
           IN /\ dashboard = [ScoreDash(x, t) EXCEPT !.anomaly_scores = past]
              /\ rec = past
              /\ ticks = p
              /\ drained = [i \in 1..(t - DRAIN_BATCH * p) |-> ScoreLine(x, DRAIN_BATCH * p + i)]
        /\ hist = [i \in 1..t |-> EventOf(ScoreLine(x, i), 0)]
        /\ decoded = t
        /\ written = t
        /\ now = e
        /\ pc = "frame"
        /\ drain_i = 0
        /\ running = TRUE
        /\ rx = 1
        /\ queue = <<>>
        /\ child = 1
        /\ agents = <<Spawned>>
        /\ term = [raw |-> TRUE, alt |-> TRUE]
        /\ queued = <<>>
        /\ key = NoKey
        /\ before = Gone
        /\ feed = 0

ScoreFrame == \E snap \in ScoreSnaps : DrawFrame(snap)

ScoreNext == ScoreFrame

SpecScore == ScoreInit /\ [][ScoreNext]_vars

\* ------------------------------------------------------------------------
\* The drain loop on long queues (SpecDrain): the loop without keys, fed by
\* one agent whose k-th line carries k as its pid.  The task forwards a few
\* lines one by one, then, while the loop waits in its first poll, a burst
\* that fills the queue around the batch size, then again a few lines one
\* by one as the loop catches up.

DrainFeeds == 1..2

\* the longest burst
MaxBurst == 258

DrainBursts == (MaxBurst - 4)..MaxBurst

\* The k-th line the agent writes, as its task sends it.
DrainLine(k) == [FeedLine(feed, k) EXCEPT !.src = rx]

DrainInit == \E f \in DrainFeeds : Startup(f)

\* One turn of the forwarding task: before the burst, or after it once the
\* loop has at most one line left to receive.
DrainForward ==
    /\ written < MaxBurst + MaxLines
    /\ written < MaxLines \/ (written > MaxLines /\ Len(queue) <= 1)
    /\ agents[rx].task = "reading"
    /\ queue' = send(queue, DrainLine(written + 1))
    /\ written' = written + 1
    /\ UNCHANGED <<dashboard, now, pc, drain_i, running, rx, child, agents, term,
                   ticks, since_reset, this_pass, feed>>

\* n turns of the forwarding task from its k-th line on: each send queues
\* its line behind the lines already there.
SendAll(q, k, n) == q \o [i \in 1..n |-> DrainLine(k + i - 1)]

\* n turns of the forwarding task while the loop waits in its first poll.
DrainBurst ==
    /\ pc = "poll"
    /\ ticks = 1
    /\ written <= MaxLines
    /\ agents[rx].task = "reading"
    /\ \E n \in DrainBursts :
         /\ Len(queue) + n <= CHANNEL_CAP
         /\ queue' = SendAll(queue, written + 1, n)
         /\ written' = written + n
    /\ UNCHANGED <<dashboard, now, pc, drain_i, running, rx, child, agents, term,
                   ticks, since_reset, this_pass, feed>>

DrainFrame ==
    /\ ticks < MaxTicks
    /\ DrawFrame([cpu_usage |-> 0, memory_usage |-> 0])

DrainNext ==
    \/ DrainForward \/ DrainBurst \/ DrainRecv \/ DrainBreak \/ DrainFrame \/ PollNone

SpecDrain == DrainInit /\ [][DrainNext]_vars

\* ------------------------------------------------------------------------
\* The Event Categories panel (SpecPanel): add_event on events of up to
\* seven categories, each category first seen at any time, and frames.

PanelTypes == {Some("accept"), Some("connect"), Some("exec"), Some("open"),
               Some("ptrace"), Some("setuid"), None}

\* events of a category already counted that the panel model takes
MaxRepeats == 1

PanelInit == Startup(0)

\* A line is decoded and handed to add_event: of a category not seen yet,
\* or once more of the latest category.
PanelAdd ==
    /\ \E etype \in PanelTypes :
         LET line == Line(TRUE, etype, Some(Len(hist) + 1), Some("bash"), None, Some(0))
             event == EventOf(line, now)
         IN /\ \/ event.event_type \notin DOMAIN dashboard.event_counters
               \/ /\ hist # <<>>
                  /\ event.event_type = hist[Len(hist)].event_type
                  /\ Len(hist) - Cardinality(DOMAIN dashboard.event_counters) < MaxRepeats
            /\ dashboard' = add_event(dashboard, event)
            /\ hist' = Append(hist, event)
    /\ decoded' = decoded + 1
    /\ UNCHANGED <<now, pc, drain_i, running, plumbing, term, counters, rec,
                   this_pass, feed>>

\* The 'r' arm.
PanelReset ==
    /\ hist # <<>>
    /\ dashboard' = reset_stats(dashboard)
    /\ decoded' = 0
    /\ hist' = <<>>
    /\ rec' = <<>>
    /\ UNCHANGED <<now, pc, drain_i, running, plumbing, term, counters, this_pass, feed>>

PanelNext == PanelAdd \/ PanelReset

SpecPanel == PanelInit /\ [][PanelNext]_vars

\* ------------------------------------------------------------------------
\* Claims checked on the control loop (Spec)

AgentStopped == \A a \in DOMAIN agents : ~agents[a].alive

\* C1, as claimed: in every state the keys and ticks can reach, monitoring
\* paused implies that no agent spawned by the dashboard is running.
\* Refuted: 'p' pauses and kills the child, 's' then spawns a new agent and
\* leaves paused set.
C1_PausedImpliesAgentStopped ==
    ~Returned => (dashboard.paused => AgentStopped)

\* C6: right after the reset key, total_events is 0, both counter maps, the
\* event log and the score history are empty, and start_time is what it was.
C6_Reset ==
    key = "r" =>
        /\ dashboard.total_events = 0
        /\ DOMAIN dashboard.event_counters = {}
        /\ DOMAIN dashboard.process_counters = {}
        /\ dashboard.events = <<>>
        /\ dashboard.anomaly_scores = <<>>
        /\ dashboard.start_time = before.start_time

\* C6: the reset key was handled with events counted and logged, scores
\* recorded, and the clock past start_time.
C6_Witness ==
    /\ key = "r"
    /\ before.total_events > 0
    /\ before.events # <<>>
    /\ DOMAIN before.event_counters # {}
    /\ DOMAIN before.process_counters # {}
    /\ before.anomaly_scores # <<>>
    /\ now > before.start_time

\* C7: a drain step that decodes a line while monitoring is paused leaves
\* the event log, both counter maps and total_events as they were.
C7_PausedAddEventNoOp ==
    [][(DrainRecv /\ dashboard.paused /\ Head(queue).json) =>
          /\ dashboard'.events = dashboard.events
          /\ dashboard'.event_counters = dashboard.event_counters
          /\ dashboard'.process_counters = dashboard.process_counters
          /\ dashboard'.total_events = dashboard.total_events]_vars

\* C7: the latest drain loop decoded a line while monitoring was paused, with
\* events counted before the pause.
C7_Witness ==
    /\ ~Returned
    /\ dashboard.paused
    /\ dashboard.total_events > 0
    /\ drained # <<>>
    /\ drained[Len(drained)].json
    /\ key = NoKey

\* C8: a drain step that receives a line that is no JSON changes nothing of
\* the Dashboard and of the counts, returns no error, and leaves the loop
\* running with the rest of the queue, in order, next to be received.
C8_UndecodableDropped ==
    [][(DrainRecv /\ ~Head(queue).json) =>
          /\ dashboard' = dashboard
          /\ decoded' = decoded
          /\ hist' = hist
          /\ queue' = Tail(queue)
          /\ running' = running
          /\ pc' = (IF drain_i + 1 < DRAIN_BATCH THEN "drain" ELSE "frame")]_vars

\* C8: one drain loop dropped a line that is no JSON and then took the line
\* queued behind it.
C8_Witness ==
    /\ ~Returned
    /\ Len(drained) = 2
    /\ ~drained[1].json
    /\ drained[2].json
    /\ dashboard.total_events = 1
    /\ Len(dashboard.events) = 1

\* ------------------------------------------------------------------------
\* Claims checked on the event log in the long run (SpecLog)

\* C2, as claimed: total_events is the number of lines decoded since the
\* last reset.  Refuted: a line decoded while monitoring is paused is
\* handed to add_event, which returns without counting it.
C2_TotalIsDecoded ==
    ~Returned => dashboard.total_events = decoded

\* C2, amended: total_events is the number of lines decoded, while
\* monitoring was not paused, since the last reset; lines decoded while
\* paused are not counted.
C2_TotalIsDecodedWhileNotPaused ==
    ~Returned => /\ dashboard.total_events = Len(hist)
                 /\ dashboard.total_events <= decoded

\* C2: more lines were counted than the full log holds, and a line decoded
\* while paused was not counted.
C2_Witness ==
    /\ ~Returned
    /\ Len(dashboard.events) = EVENTS_CAP
    /\ dashboard.total_events > EVENTS_CAP
    /\ decoded > dashboard.total_events

\* C3: the event log holds at most 1000 entries and is the latest
\* min(n, 1000) of the n events add_event took since the last reset, in the
\* order they came.
C3_LogIsLatestWindow ==
    /\ Len(dashboard.events) <= EVENTS_CAP
    /\ Len(dashboard.events) = Min(Len(hist), EVENTS_CAP)
    /\ dashboard.events = LastN(hist, EVENTS_CAP)

\* C3: the log is full and more than one event was evicted.
C3_Witness ==
    /\ Len(hist) > EVENTS_CAP + 1
    /\ Len(dashboard.events) = EVENTS_CAP
    /\ dashboard.events[1] = hist[Len(hist) - EVENTS_CAP + 1]
    /\ dashboard.events[1] # hist[1]

Occurrences(seq, field, v) == Cardinality({i \in DOMAIN seq : seq[i][field] = v})

\* C5: every category's and every actor's counter is the number of events
\* of that category, of that actor, add_event took since the last reset,
\* evicted or not.
C5_CountersAreCumulative ==
    /\ \A c \in DOMAIN dashboard.event_counters \cup {hist[i].event_type : i \in DOMAIN hist} :
         get_or_zero(dashboard.event_counters, c) = Occurrences(hist, "event_type", c)
    /\ \A a \in DOMAIN dashboard.process_counters \cup {hist[i].comm : i \in DOMAIN hist} :
         get_or_zero(dashboard.process_counters, a) = Occurrences(hist, "comm", a)

\* C5: events were evicted from the full log and the counters count more
\* events than the log holds.
C5_Witness ==
    /\ Len(hist) > EVENTS_CAP
    /\ Len(dashboard.events) = EVENTS_CAP
    /\ get_or_zero(dashboard.event_counters, "exec")
         > Occurrences(dashboard.events, "event_type", "exec")
    /\ get_or_zero(dashboard.process_counters, "cat")
         > Occurrences(dashboard.events, "comm", "cat")

\* ------------------------------------------------------------------------
\* Claims checked on the score history in the long run (SpecHist)

\* C4: the score history holds at most 60 samples and is the latest
\* min(k, 60) of the k samples render recorded since the last reset, in the
\* order they were recorded.
C4_HistoryIsLatestWindow ==
    /\ Len(dashboard.anomaly_scores) <= SCORES_CAP
    /\ Len(dashboard.anomaly_scores) = Min(Len(rec), SCORES_CAP)
    /\ dashboard.anomaly_scores = LastN(rec, SCORES_CAP)

\* C4: the history is full, more than one sample was evicted, and the
\* samples differ.
C4_Witness ==
    /\ Len(rec) > SCORES_CAP + 1
    /\ Len(dashboard.anomaly_scores) = SCORES_CAP
    /\ dashboard.anomaly_scores[1] = rec[Len(rec) - SCORES_CAP + 1]
    /\ dashboard.anomaly_scores[1] # dashboard.anomaly_scores[SCORES_CAP]
    /\ dashboard.anomaly_scores # SubSeq(rec, 1, SCORES_CAP)

\* ------------------------------------------------------------------------
\* Claims checked on the scorer (SpecScore)

LastScore == dashboard.anomaly_scores[Len(dashboard.anomaly_scores)]

\* C9: for every answer of the host, the score of the Dashboard at the
\* current time is between 0.0 and 5.0, and is 0.0 when total_events is 0;
\* so is every score recorded.
C9_ScoreInRange ==
    /\ \A snap \in ScoreSnaps \cup {dashboard.system_stats} :
         LET score == calculate_anomaly_score(update_system_stats(dashboard, snap), now)
         IN /\ 0 <= score /\ score <= 50
            /\ dashboard.total_events = 0 => score = 0
    /\ \A i \in DOMAIN dashboard.anomaly_scores :
         0 <= dashboard.anomaly_scores[i] /\ dashboard.anomaly_scores[i] <= 50
    /\ (pc = "poll" /\ dashboard.total_events = 0) => LastScore = 0

\* The tiers of C10, in tenths: the first threshold of tiers (pairs of
\* threshold and score) that num / den exceeds strictly decides the term.
RECURSIVE TierOf(_, _, _)
TierOf(tiers, num, den) ==
    IF tiers = <<>> THEN 0
    ELSE IF num > tiers[1][1] * den THEN tiers[1][2]
    ELSE TierOf(Tail(tiers), num, den)

\* The sum of the five terms of C10 for the Dashboard d at time t.  The exec
\* ratio's thresholds 0.2, 0.1 and 0.05 are taken as 20, 10 and 5 over 100.
TermSum(d, t) ==
    LET total == d.total_events
        exec == get_or_zero(d.event_counters, "exec")
    IN TierOf(<< <<50, 30>>, <<30, 20>>, <<15, 10>>, <<5, 5>> >>, total, t - d.start_time + 1)
       + TierOf(<< <<20, 20>>, <<10, 15>>, <<5, 8>> >>, 100 * exec, total)
       + TierOf(<< <<90, 15>>, <<70, 10>> >>, d.system_stats.cpu_usage, 1)
       + TierOf(<< <<90, 10>>, <<80, 5>> >>, d.system_stats.memory_usage, 1)
       + TierOf(<< <<5000, 10>>, <<2000, 5>> >>, total, 1)

C10_Example ==
    /\ dashboard.total_events = 100
    /\ now - dashboard.start_time = 1
    /\ get_or_zero(dashboard.event_counters, "exec") = 25
    /\ dashboard.system_stats.cpu_usage = 95
    /\ dashboard.system_stats.memory_usage = 85

\* C10: with total_events above 0 the score is the sum of the five terms,
\* cut at 5.0; the frame just drawn recorded that score; and the inputs of
\* the example sum to 6.0 and score 5.0.
C10_ScoreIsClampedSum ==
    /\ dashboard.total_events > 0 =>
         calculate_anomaly_score(dashboard, now) = Min(TermSum(dashboard, now), 50)
    /\ (pc = "poll" /\ dashboard.total_events > 0) =>
         LastScore = Min(TermSum(dashboard, now), 50)
    /\ C10_Example =>
         TermSum(dashboard, now) = 60 /\ calculate_anomaly_score(dashboard, now) = 50

\* C9: a frame recorded a score that the cut at 5.0 lowered.
C9_Witness ==
    /\ pc = "poll"
    /\ dashboard.total_events > 0
    /\ TermSum(dashboard, now) > 50
    /\ LastScore = 50

\* C10: a frame was drawn from the inputs of the example.
C10_Witness ==
    /\ pc = "poll"
    /\ C10_Example
    /\ LastScore = 50

\* Dashboards that agree with d on total_events, the "exec" count and the
\* host's snapshot, and differ from it in the log, the actors' counters, the
\* other categories' counters, the score history or the UI state.
ScoreTwins(d) ==
    {[d EXCEPT !.events = <<>>],
     [d EXCEPT !.events = IF @ = <<>> THEN <<EventOf(JsonExec, 0)>> ELSE Tail(@)],
     [d EXCEPT !.process_counters = EmptyMap],
     [d EXCEPT !.process_counters = entry_incr(@, "cat")],
     [d EXCEPT !.event_counters = entry_incr(@, "open")],
     [d EXCEPT !.anomaly_scores = <<>>],
     [d EXCEPT !.anomaly_scores = Append(@, SCORE_MAX)],
     [d EXCEPT !.paused = ~@],
     [d EXCEPT !.show_help = ~@],
     [d EXCEPT !.current_tab = (@ + 1) % NUM_TABS]}

\* C11: the score of the Dashboard is the score of every Dashboard that
\* agrees with it on total_events, the "exec" count, CPU and memory usage,
\* at every time with the same seconds elapsed, whatever the log, the actors'
\* counters, the score history and the UI state are; and a frame, which
\* computes the score, changes no field but the host's snapshot it fetched
\* and the score history it appended the score to.
C11_ScorerIsPure ==
    /\ [](\A twin \in ScoreTwins(dashboard) :
            /\ calculate_anomaly_score(twin, now) = calculate_anomaly_score(dashboard, now)
            /\ calculate_anomaly_score([twin EXCEPT !.start_time = @ + 7], now + 7)
                 = calculate_anomaly_score(dashboard, now))
    /\ [][ScoreFrame =>
            /\ [dashboard' EXCEPT !.anomaly_scores = <<>>, !.system_stats = 0]
                 = [dashboard EXCEPT !.anomaly_scores = <<>>, !.system_stats = 0]
            /\ dashboard'.anomaly_scores
                 = LastN(Append(dashboard.anomaly_scores,
                                calculate_anomaly_score(dashboard', now')), SCORES_CAP)]_vars

\* C11: a frame scored a Dashboard whose log holds fewer "exec" events than
\* its counter counts, so that log and counter would score differently.
C11_Witness ==
    /\ pc = "poll"
    /\ LastScore > 0
    /\ get_or_zero(dashboard.event_counters, "exec") * 20 > dashboard.total_events
    /\ Occurrences(dashboard.events, "event_type", "exec") = 0
    /\ DOMAIN dashboard.process_counters # {}

\* ------------------------------------------------------------------------
\* Claims checked on the control loop (Spec): exits and failures

\* C12, as claimed: once dashboard() has returned, by quit or by an error,
\* raw mode is disabled and the alternate screen left.  Refuted: an error
\* of terminal.draw, event::poll, event::read or a spawn is returned by `?`
\* from inside the loop, past the cleanup.
C12_TerminalRestoredOnExit ==
    Returned => (~term.raw /\ ~term.alt)

\* C13, as claimed: when the spawn of the start/restart key fails, the loop
\* keeps running and the agent, the attached queue and the Dashboard are
\* what they were before the key.  Refuted: the old child is killed before
\* the spawn, and the spawn's error is returned by `?`.
C13_FailedRestartKeepsState ==
    [][KeyRestartFail =>
          /\ pc' = "drain"
          /\ running'
          /\ agents' = agents
          /\ child' = child
          /\ rx' = rx
          /\ queue' = queue
          /\ dashboard' = dashboard]_vars

\* ------------------------------------------------------------------------
\* Claims checked on the drain loop on long queues (SpecDrain)

\* C14, as claimed: when the frame is about to be rendered, every line
\* that was queued when the drain loop of this pass started has been
\* received.  Refuted: the loop receives at most 256 lines; of a longer
\* queue the rest stays queued while the frame is rendered.
C14_AllQueuedDrainedBeforeFrame ==
    pc = "frame" =>
        /\ Len(drained) >= Len(queued)
        /\ SubSeq(drained, 1, Len(queued)) = queued

\* C14, amended: when the frame is about to be rendered, the first
\* min(n, 256) of the n lines that were queued when the drain loop of this
\* pass started have been received, in order; lines beyond the 256th are
\* still queued, first in line for the next pass; and the Dashboard to be
\* rendered has counted every line received so far.
C14_QueuedDrainedUpToBatch ==
    pc = "frame" =>
        LET n == Min(Len(queued), DRAIN_BATCH)
        IN /\ Len(drained) >= n
           /\ SubSeq(drained, 1, n) = SubSeq(queued, 1, n)
           /\ Len(queued) > n =>
                /\ Len(drained) = DRAIN_BATCH
                /\ Len(queue) >= Len(queued) - n
                /\ SubSeq(queue, 1, Len(queued) - n) = SubSeq(queued, n + 1, Len(queued))
           /\ dashboard.total_events = written - Len(queue)

\* C14: a frame is about to be rendered after a drain loop that started on
\* more than 256 queued lines and received 256 of them.
C14_Witness ==
    /\ pc = "frame"
    /\ Len(queued) > DRAIN_BATCH
    /\ Len(drained) = DRAIN_BATCH
    /\ queue # <<>>
    /\ dashboard.total_events >= DRAIN_BATCH

\* C16: the events taken by add_event, and the lines still queued behind
\* them, are in the order the agent wrote their lines (the k-th line
\* written carries pid k), and every event taken is counted.
C16_IngestedInStreamOrder ==
    /\ \A i \in 1..(Len(hist) - 1) : hist[i].pid < hist[i + 1].pid
    /\ \A i \in 1..(Len(queue) - 1) : queue[i].pid[1] < queue[i + 1].pid[1]
    /\ (hist # <<>> /\ queue # <<>>) => hist[Len(hist)].pid < queue[1].pid[1]
    /\ dashboard.events = LastN(hist, EVENTS_CAP)
    /\ dashboard.total_events = Len(hist)

\* C16: one drain loop received the lines queued at its start and then
\* lines the task sent while it ran, and more than 256 events were taken.
C16_Witness ==
    /\ pc = "frame"
    /\ queued # <<>>
    /\ Len(drained) > Len(queued)
    /\ Len(hist) > DRAIN_BATCH

\* ------------------------------------------------------------------------
\* Claims checked on the control loop (Spec): the channel and the keys

\* The queue after a step of the forwarding task or of try_recv, or as it was.
QueueKept ==
    \/ queue' = queue
    \/ /\ Len(queue') = Len(queue) + 1
       /\ SubSeq(queue', 1, Len(queue)) = queue
    \/ /\ pc = "drain"
       /\ queue # <<>>
       /\ queue' = Tail(queue)
       /\ drained' # <<>>
       /\ drained'[Len(drained')] = Head(queue)
       /\ Head(queue).json => decoded' = decoded + 1

C17_OnlyAttachedFeedProcessed ==
    ~Returned =>
        /\ \A i \in DOMAIN queue : queue[i].src = rx
        /\ (pc \in {"frame", "poll"} \/ (pc = "drain" /\ drain_i > 0)) =>
              \A i \in DOMAIN drained : drained[i].src = rx

\* C17: after a replacement the drain loop received a line of the new
\* agent while the task of the old agent was still reading.
C17_Witness ==
    /\ pc = "frame"
    /\ rx = 2
    /\ drained # <<>>
    /\ drained[1].src = 2
    /\ agents[1].task = "reading"
    /\ written = MaxLines

\* C18, as claimed: at every replacement of the agent, by 's' or by the
\* resuming 'p', the replaced agent has been killed, so that its stdout
\* closes and the task forwarding it ends.  Refuted: the resuming 'p' kills
\* nothing; after 'p', 's' the child is a live agent, which a second 'p'
\* replaces and leaves running, its task reading for ever.
C18_ReplacedAgentStopped ==
    [][(pc = "poll" /\ key' \in {"s", "p"} /\ child' # child) =>
          ~agents'[child].alive]_vars

\* C19: the 'p' key negates paused; handled while not paused it kills the
\* child and leaves child and channel as they are; handled while paused it
\* spawns a new agent, makes it the child and attaches rx to a new, empty
\* channel fed by that agent's task.  And a line received while not paused
\* that decodes comes from the attached agent and is taken by add_event.
C19_PauseResumeKeepsAgentInStep ==
    /\ [][(pc = "poll" /\ key' = "p") =>
            /\ dashboard'.paused = ~dashboard.paused
            /\ ~dashboard.paused =>
                 /\ agents' = [agents EXCEPT ![child].alive = FALSE]
                 /\ child' = child /\ rx' = rx /\ queue' = queue
            /\ dashboard.paused =>
                 /\ agents' = Append(agents, Spawned)
                 /\ child' = Len(agents')
                 /\ rx' = child'
                 /\ queue' = <<>>]_vars
    /\ [][(DrainRecv /\ ~dashboard.paused /\ Head(queue).json) =>
            /\ Head(queue).src = rx
            /\ dashboard'.total_events = dashboard.total_events + 1
            /\ dashboard'.events[Len(dashboard'.events)] = EventOf(Head(queue), now)]_vars

\* C19: right after a resume the new agent is running and a line of it is
\* queued on the new channel.
C19_Witness ==
    /\ key = "p"
    /\ before.paused
    /\ ~dashboard.paused
    /\ agents[child] = Spawned
    /\ rx = child
    /\ queue # <<>>
    /\ queue[1].src = child
    /\ queue[1].json

\* C20: the 'x' key kills the child and changes nothing else: the
\* Dashboard (paused, tab, help, log, counters, total, score history), rx
\* and its queue, the child handle, `running` and the terminal are as before.
C20_StopKillsAgentOnly ==
    [][(pc = "poll" /\ key' = "x") =>
          /\ agents' = [agents EXCEPT ![child].alive = FALSE]
          /\ dashboard' = dashboard
          /\ rx' = rx /\ queue' = queue /\ child' = child
          /\ running' = running /\ term' = term]_vars

\* C20: 'x' was handled with events counted, a score recorded, a line
\* queued, and the child running until then.
C20_Witness ==
    /\ key = "x"
    /\ before = dashboard
    /\ dashboard.total_events > 0
    /\ dashboard.anomaly_scores # <<>>
    /\ queued # <<>>
    /\ ~agents[child].alive
    /\ agents[child].task = "reading"

\* ------------------------------------------------------------------------
\* Claims checked on the control loop (Spec): reset, tabs, quit, UiState

\* C21: the 'r' key leaves the active tab, show_help and paused, every
\* agent (running or not), the child handle, rx and the lines queued on its
\* channel as they are.
C21_ResetKeepsUiAndAgent ==
    [][(pc = "poll" /\ key' = "r") =>
          /\ dashboard'.current_tab = dashboard.current_tab
          /\ dashboard'.show_help = dashboard.show_help
          /\ dashboard'.paused = dashboard.paused
          /\ agents' = agents
          /\ child' = child /\ rx' = rx /\ queue' = queue]_vars

\* C21: 'r' was handled on another tab than the first, while paused, with
\* events counted and a line queued.
C21_Witness ==
    /\ key = "r"
    /\ before.current_tab # 0
    /\ dashboard.current_tab = before.current_tab
    /\ before.paused
    /\ dashboard.paused
    /\ before.total_events > 0
    /\ dashboard.total_events = 0
    /\ queued # <<>>
    /\ queue # <<>>

\* C22: the active tab is always one of 0..4; Tab takes tab t to
\* (t + 1) mod 5, so 4 to 0; BackTab takes it to (t + 4) mod 5, so 0 to 4;
\* the key of digit d takes it to d - 1 whatever it was.
C22_TabsWrapAndDigitsJump ==
    /\ [](~Returned => dashboard.current_tab \in 0..4)
    /\ [][(pc = "poll" /\ key' = "tab") =>
            /\ dashboard'.current_tab = (dashboard.current_tab + 1) % 5
            /\ dashboard.current_tab = 4 => dashboard'.current_tab = 0]_vars
    /\ [][(pc = "poll" /\ key' = "backtab") =>
            /\ dashboard'.current_tab = (dashboard.current_tab + 4) % 5
            /\ dashboard.current_tab = 0 => dashboard'.current_tab = 4]_vars
    /\ [][\A d \in 1..5 :
            (pc = "poll" /\ key' = <<"1", "2", "3", "4", "5">>[d]) =>
                dashboard'.current_tab = d - 1]_vars

\* C22: Tab was handled on the last tab and went to the first.
C22_Witness ==
    /\ key = "tab"
    /\ before.current_tab = 4
    /\ dashboard.current_tab = 0

\* C23, as claimed: once 'q' is handled the loop is left for the cleanup;
\* from there no line is received, no frame drawn and no key handled, and
\* dashboard() returns Ok with raw mode disabled, the alternate screen left
\* and the child killed (a kill that fails is ignored).  Refuted: an error
\* of disable_raw_mode or of leaving the alternate screen is returned by
\* `?` before the kill is attempted, and the agent is left running.
C23_QuitTearsDown ==
    /\ [][(pc = "poll" /\ key' = "q") => (pc' = "cleanup" /\ ~running')]_vars
    /\ [][(pc = "cleanup" /\ pc' # pc) =>
            /\ pc' = "done"
            /\ ~term'.raw /\ ~term'.alt
            /\ ~agents'[child].alive]_vars

\* UiState: the active tab, the help overlay, monitoring paused.
UiState(d) == [tab |-> d.current_tab, help |-> d.show_help, paused |-> d.paused]

\* C24: while dashboard() runs, a step that handles no key (a line
\* received and ingested, the stats refreshed and a frame rendered, the
\* poll timing out, the tasks and the clock) leaves the active tab,
\* show_help and paused as they are; 'h' negates show_help and leaves the
\* other two; Tab, BackTab and the digits leave show_help and paused; 'p'
\* negates paused and leaves the other two; 'q', 's', 'x' and 'r' leave
\* all three.
C24_UiStateChangedOnlyByKeys ==
    [][~Returned' =>
          LET old == UiState(dashboard)
              new_ui == UiState(dashboard')
              handled == IF pc = "poll" THEN key' ELSE NoKey
          IN /\ handled \in {NoKey, "q", "s", "x", "r"} => new_ui = old
             /\ handled = "h" => new_ui = [old EXCEPT !.help = ~old.help]
             /\ handled = "p" => new_ui = [old EXCEPT !.paused = ~old.paused]
             /\ handled \in {"tab", "backtab", "1", "2", "3", "4", "5"} =>
                  [new_ui EXCEPT !.tab = 0] = [old EXCEPT !.tab = 0]]_vars

\* C24: with the help overlay open on another tab than the first, a line
\* was received and ingested and a frame rendered.
C24_Witness ==
    /\ pc = "poll"
    /\ dashboard.show_help
    /\ dashboard.current_tab # 0
    /\ drained # <<>>
    /\ drained[1].json
    /\ dashboard.total_events > 0
    /\ ticks = MaxTicks

\* ------------------------------------------------------------------------
\* Claims checked on the Event Categories panel (SpecPanel)

RECURSIVE FirstSeen(_)
\* The categories of a sequence of events in the order they first occur.
FirstSeen(events) ==
    IF events = <<>> THEN <<>>
    ELSE LET before_last == FirstSeen(SubSeq(events, 1, Len(events) - 1))
             last == events[Len(events)].event_type
         IN IF \E i \in DOMAIN before_last : before_last[i] = last
            THEN before_last ELSE Append(before_last, last)

\* The categories the panel shows, top to bottom.
PanelKeys == [i \in DOMAIN render_event_rates(dashboard) |-> render_event_rates(dashboard)[i].key]

\* C25, as claimed: the panel shows the first 6 categories in the order in
\* which they were first inserted into event_counters.  Refuted:
\* event_counters is a BTreeMap, which iterates by ascending key.
C25_PanelInInsertionOrder ==
    PanelKeys = SubSeq(FirstSeen(hist), 1, Min(Len(FirstSeen(hist)), 6))

\* C25, amended: the panel shows min(n, 6) of the n categories counted,
\* each with its counter, in ascending order of the category name; the
\* categories not shown all come after those shown in that order; neither
\* the order of insertion nor the counts decide.
C25_PanelInKeyOrder ==
    LET panel == render_event_rates(dashboard)
        names == DOMAIN dashboard.event_counters
    IN /\ Len(panel) = Min(Cardinality(names), 6)
       /\ \A i \in DOMAIN panel :
            /\ panel[i].key \in names
            /\ panel[i].value = dashboard.event_counters[panel[i].key]
       /\ \A i \in DOMAIN panel, j \in DOMAIN panel :
            i < j => ord(panel[i].key) < ord(panel[j].key)
       /\ \A k \in names :
            (\A i \in DOMAIN panel : panel[i].key # k) =>
                \A i \in DOMAIN panel : ord(panel[i].key) < ord(k)

\* C25: seven categories are counted, the first one inserted is "unknown",
\* which the panel does not show, and the category with the highest count
\* is not at the top.
C25_Witness ==
    /\ Cardinality(DOMAIN dashboard.event_counters) = 7
    /\ hist[1].event_type = "unknown"
    /\ \A i \in DOMAIN PanelKeys : PanelKeys[i] # "unknown"
    /\ PanelKeys[1] = "accept"
    /\ dashboard.event_counters["accept"] = 1
    /\ dashboard.event_counters["setuid"] = 2

\* ------------------------------------------------------------------------
\* Claims checked on the drain loop on long queues (SpecDrain): the batch

\* C26: one drain loop receives at most 256 lines; the lines are received
\* in the order queued, none skipped (the k-th line written carries pid k,
\* and the line at the head of the queue is always the one after the last
\* received); after a drain loop that started on more than 256 lines, 256
\* are received and the others are still queued; and the next drain loop
\* starts on them.
C26_BatchOf256 ==
    /\ Len(drained) <= DRAIN_BATCH
    /\ \A i \in DOMAIN queue : queue[i].pid[1] = decoded + i
    /\ (pc \in {"frame", "poll"} \/ drain_i > 0) =>
          \A i \in DOMAIN drained : drained[i].pid[1] = decoded - Len(drained) + i
    /\ (pc = "frame" /\ Len(queued) > DRAIN_BATCH) =>
          /\ Len(drained) = DRAIN_BATCH
          /\ Len(queue) >= Len(queued) - DRAIN_BATCH
    /\ (pc = "drain" /\ drain_i = 0) =>
          /\ Len(queue) >= Len(queued)
          /\ SubSeq(queue, 1, Len(queued)) = queued

\* C26: the third drain loop started on the lines that the second, which
\* received 256, had left queued, and received them first.
C26_Witness ==
    /\ pc = "frame"
    /\ ticks = 2
    /\ Len(queued) >= 3
    /\ queued[1].pid[1] = DRAIN_BATCH + 1
    /\ Len(drained) >= Len(queued)
    /\ SubSeq(drained, 1, Len(queued)) = queued
    /\ decoded = DRAIN_BATCH + Len(drained)

\* ------------------------------------------------------------------------
\* Claims checked on the control loop (Spec): the agents

\* C27, as claimed: at most one agent spawned by dashboard() is alive at
\* any time.  Refuted: the resuming 'p' spawns without killing the child;
\* after 'p', 's' the child is alive and paused still set, and the next 'p'
\* spawns a second agent next to it.
C27_AtMostOneAgentAlive ==
    Cardinality({a \in DOMAIN agents : agents[a].alive}) <= 1

\* ------------------------------------------------------------------------
\* Claims checked on the event log in the long run (SpecLog): the sums

\* C28: the counters of all categories sum to total_events, so do the
\* counters of all actors, and the event log holds min(total_events, 1000)
\* events.
C28_CountersSumToTotal ==
    /\ MapSum(dashboard.event_counters) = dashboard.total_events
    /\ MapSum(dashboard.process_counters) = dashboard.total_events
    /\ Len(dashboard.events) = Min(dashboard.total_events, EVENTS_CAP)

\* C28: more than 1000 events of several categories and actors were
\* counted, and the log is full.
C28_Witness ==
    /\ dashboard.total_events > EVENTS_CAP
    /\ Len(dashboard.events) = EVENTS_CAP
    /\ Cardinality(DOMAIN dashboard.event_counters) > 2
    /\ Cardinality(DOMAIN dashboard.process_counters) > 1
    /\ MapSum(dashboard.event_counters) = dashboard.total_events

====
